---------------------------- MODULE Spec2Model ----------------------------
(***************************************************************************)
(* A model of the realtime middle tier (app/backend/rtmt.py): the relay    *)
(* between a voice client and the upstream realtime API, its two message   *)
(* transformers, the pending tool call tracker and the input quality gate. *)
(*                                                                         *)
(* Text is a sequence of symbols.  A symbol is one character, or one whole *)
(* markup tag of the SSML envelope (the inputs never hold part of a tag).  *)
(* A confidence is a number of hundredths: 35 stands for 0.35.             *)
(***************************************************************************)
EXTENDS Integers, Sequences, FiniteSets, TLC

(***************************************************************************)
(* Python string primitives used by the code.                              *)
(***************************************************************************)

\* str.strip() removes leading and trailing whitespace characters.
Whitespace == {" ", "\t", "\n"}

Uppers == <<"A", "D", "E", "G", "H", "I", "M", "N", "O", "R", "S", "U", "Y">>

Lowers == <<"a", "d", "e", "g", "h", "i", "m", "n", "o", "r", "s", "u", "y">>

\* str.lower() on one character.
LowerChar(c) ==
    IF \E i \in DOMAIN Uppers : Uppers[i] = c
    THEN Lowers[CHOOSE i \in DOMAIN Uppers : Uppers[i] = c]
    ELSE c

\* str.lower()
lower(s) == [i \in DOMAIN s |-> LowerChar(s[i])]

RECURSIVE lstrip(_)
lstrip(s) ==
    IF s = <<>> THEN s
    ELSE IF Head(s) \in Whitespace THEN lstrip(Tail(s))
    ELSE s

RECURSIVE rstrip(_)
rstrip(s) ==
    IF s = <<>> THEN s
    ELSE IF s[Len(s)] \in Whitespace THEN rstrip(SubSeq(s, 1, Len(s) - 1))
    ELSE s

\* str.strip()
strip(s) == rstrip(lstrip(s))

\* Python's `sub in s` on strings.
Contains(s, sub) ==
    \E i \in 1..(Len(s) - Len(sub) + 1) : SubSeq(s, i, i + Len(sub) - 1) = sub

(***************************************************************************)
(* The text normalizer: RTMiddleTier._apply_ssml_formatting.               *)
(***************************************************************************)

SpeakTag == <<"<speak>">>

SsmlPrefix == <<"<speak>", "<lang xml:lang=\"en-US\">", "<prosody rate=\"fast\">">>

SsmlSuffix == <<"</prosody>", "</lang>", "</speak>">>

\* A plausible slip: the envelope is applied without looking for the marker.
ApplySsmlAlways(text) == SsmlPrefix \o text \o SsmlSuffix

_apply_ssml_formatting(text) ==
    IF text = <<>> \/ Contains(text, SpeakTag)
    THEN text
    ELSE SsmlPrefix \o text \o SsmlSuffix

(***************************************************************************)
(* The quality gate: _is_valid_content, _handle_low_confidence_input and   *)
(* the if/elif chain of _process_message_to_client that combines them.     *)
(***************************************************************************)

MinContentLen == 3

noise_patterns ==
    { <<"h", "m", "m">>, <<"u", "m">>, <<"u", "h">>, <<"m", "m">>, <<"h", "m">> }

\* A plausible slip: the all-same-character test is left out.
IsValidNoRepeatCheck(content) ==
    IF content = <<>> THEN FALSE
    ELSE LET c == lower(strip(content)) IN
         IF Len(c) < MinContentLen THEN FALSE
         ELSE IF c \in noise_patterns THEN FALSE
         ELSE TRUE

\* A plausible slip: the length test lets two characters pass.
IsValidTwoCharsPass(content) ==
    IF content = <<>> THEN FALSE
    ELSE LET c == lower(strip(content)) IN
         IF Len(c) < MinContentLen - 1 THEN FALSE
         ELSE IF c \in noise_patterns THEN FALSE
         ELSE IF Len(c) > 1 /\ \A i \in 1..Len(c) : c[i] = c[1] THEN FALSE
         ELSE TRUE

_is_valid_content(content) ==
    IF content = <<>> THEN FALSE
    ELSE LET c == lower(strip(content)) IN
         IF Len(c) < MinContentLen THEN FALSE
         ELSE IF c \in noise_patterns THEN FALSE
         ELSE IF Len(c) > 1 /\ \A i \in 1..Len(c) : c[i] = c[1] THEN FALSE
         ELSE TRUE

VeryLowConfidence == 35

LowConfidence == 50

ShortContentLen == 8

explicit_markers ==
    { <<"r", "e", "p", "e", "a", "t">>,
      <<"a", "g", "a", "i", "n">>,
      <<"d", "i", "d", "n", "'", "t", " ", "h", "e", "a", "r">>,
      <<"s", "a", "y", " ", "t", "h", "a", "t", " ", "a", "g", "a", "i", "n">> }

\* A plausible slip: the two thresholds are confused, and the unconditional
\* test takes the higher one, inclusively.
LowConfidenceThresholdsConfused(content, confidence) ==
    IF confidence <= LowConfidence THEN TRUE
    ELSE IF confidence < LowConfidence /\ Len(content) < ShortContentLen THEN TRUE
    ELSE IF \E marker \in explicit_markers : Contains(lower(content), marker) THEN TRUE
    ELSE FALSE

_handle_low_confidence_input(content, confidence) ==
    IF confidence < VeryLowConfidence THEN TRUE
    ELSE IF confidence < LowConfidence /\ Len(content) < ShortContentLen THEN TRUE
    ELSE IF \E marker \in explicit_markers : Contains(lower(content), marker) THEN TRUE
    ELSE FALSE

\* A plausible slip: the two tests of the chain are taken in the other order.
VerdictLowConfidenceFirst(content, confidence) ==
    IF _handle_low_confidence_input(content, confidence) THEN "reject-low-confidence"
    ELSE IF ~_is_valid_content(content) THEN "reject-noise"
    ELSE "accept"

\* The verdict of the chain at rtmt.py 175-212 on (content, confidence).
QualityVerdict(content, confidence) ==
    IF ~_is_valid_content(content) THEN "reject-noise"
    ELSE IF _handle_low_confidence_input(content, confidence) THEN "reject-low-confidence"
    ELSE "accept"


(***************************************************************************)
(* JSON values.  A key that is missing from an object reads Absent; a JSON *)
(* null (Python None) reads None.  Other scalar values are opaque tokens.  *)
(***************************************************************************)

Absent == "<absent>"

None == "<None>"

\* item.get("confidence", 1.0): the default, 1.0, in hundredths.
DefaultConfidence == 100

\* A confidence that the item does not carry.
NoConfidence == -1

\* The "session" object of session.created and session.update.
SessionBlank ==
    [ instructions |-> Absent, temperature |-> Absent,
      max_response_output_tokens |-> Absent, disable_audio |-> Absent,
      voice |-> Absent, turn_detection |-> Absent, tool_choice |-> Absent,
      tools |-> <<>> ]

\* One parsed frame.  kind is the websocket frame type; raw tells whether the
\* frame's bytes are the peer's own (msg.data) or a serialization made by the
\* relay (json.dumps, send_json).  has_item and has_response tell whether the
\* keys "item" and "response" are in the message.  event_id is the realtime
\* protocol's identifier of the event, 0 when the message has none.
Blank ==
    [ kind |-> "TEXT", raw |-> TRUE, event_id |-> 0, type |-> "", has_item |-> FALSE,
      item_type |-> "", role |-> "", call_id |-> <<>>, previous_item_id |-> "",
      name |-> "",
      text |-> <<>>, content |-> <<>>, confidence |-> NoConfidence,
      session |-> SessionBlank, has_response |-> FALSE, output |-> <<>>,
      result |-> <<>>, message |-> "" ]

\* json.dumps(message): the relay's own serialization of a message.
dumps(message) == [message EXCEPT !.raw = FALSE]

\* One entry of response.output.
OutputEntry(type, text) == [type |-> type, text |-> text]

(***************************************************************************)
(* ToolResult and the frames the relay builds itself.                      *)
(***************************************************************************)

TO_SERVER == "TO_SERVER"

TO_CLIENT == "TO_CLIENT"

\* json.dumps of a ToolResult text that is not a string.
json_dumps(value) == <<"{">> \o value \o <<"}">>

\* ToolResult.to_text
to_text(result) ==
    IF result.text_type = "NoneType" THEN <<>>
    ELSE IF result.text_type = "str" THEN result.text
    ELSE json_dumps(result.text)

repeat_text == <<"I'm sorry, I didn't quite catch that. Could you please repeat what you said?">>

RepeatRequest ==
    [Blank EXCEPT !.raw = FALSE, !.type = "conversation.item.create",
                  !.has_item = TRUE, !.item_type = "text",
                  !.role = "assistant",
                  !.content = _apply_ssml_formatting(repeat_text)]

FunctionCallOutput(call_id, output) ==
    [Blank EXCEPT !.raw = FALSE, !.type = "conversation.item.create",
                  !.has_item = TRUE, !.item_type = "function_call_output",
                  !.call_id = call_id, !.result = output]

ToolResponse(previous_id, tool_name, tool_result) ==
    [Blank EXCEPT !.raw = FALSE, !.type = "extension.middle_tier_tool_response",
                  !.previous_item_id = previous_id, !.name = tool_name,
                  !.result = tool_result]

ResponseCreate == [Blank EXCEPT !.raw = FALSE, !.type = "response.create"]

ErrorMsg ==
    [Blank EXCEPT !.raw = FALSE, !.type = "error",
                  !.message = "Failed to connect to Azure OpenAI services. Please check your credentials and try again."]


(***************************************************************************)
(* RTMiddleTier._process_message_to_client, one operator per case of the   *)
(* match.  Each gives the handler's effect on one parsed message:          *)
(*   fwd      the returned updated_message, as a sequence of 0 or 1 frame  *)
(*            (empty when the handler returns None);                       *)
(*   up       the frames the handler itself sends upstream (server_ws);    *)
(*   pending  _tools_pending after the handler.                            *)
(* The function call branch of response.output_item.done awaits the tool   *)
(* and is the pair of actions ToolCallStart and ToolReturn below.          *)
(***************************************************************************)

Effect(fwd, up, pending) == [fwd |-> fwd, up |-> up, pending |-> pending]

RTToolCall(tool_call_id, previous_id) ==
    [tool_call_id |-> tool_call_id, previous_id |-> previous_id]

\* A plausible slip: the configured voice is not written into the payload.
SessionCreatedKeepVoice(message, srv) ==
    dumps([message EXCEPT !.session =
        [@ EXCEPT !.instructions = "", !.tools = <<>>,
                  !.tool_choice = "none", !.max_response_output_tokens = None]])

\* case "session.created"
On_session_created(message, srv) ==
    dumps([message EXCEPT !.session =
        [@ EXCEPT !.instructions = "", !.tools = <<>>,
                  !.voice = srv.voice_choice, !.tool_choice = "none",
                  !.max_response_output_tokens = None]])

\* A plausible slip: the function call item falls through to the default.
OutputItemAddedForwardCall(message) ==
    IF message.has_item /\ message.item_type = "text"
    THEN <<dumps([message EXCEPT !.text = _apply_ssml_formatting(@)])>>
    ELSE <<message>>

\* case "response.output_item.added"
On_output_item_added(message) ==
    IF message.has_item /\ message.item_type = "text"
    THEN <<dumps([message EXCEPT !.text = _apply_ssml_formatting(@)])>>
    ELSE IF message.has_item /\ message.item_type = "function_call"
    THEN <<>>
    ELSE <<message>>

\* item.get("confidence", 1.0)
ConfidenceOf(message) ==
    IF message.confidence = NoConfidence THEN DefaultConfidence ELSE message.confidence

\* A plausible slip: the message that is passed on is always the relay's own
\* serialization (`updated_message = json.dumps(message)` at the end).
PassThroughReserialized(message, pending) == Effect(<<dumps(message)>>, <<>>, pending)

\* Lines 143 and 272: updated_message stays msg.data, the peer's own text.
PassThrough(message, pending) == Effect(<<message>>, <<>>, pending)

\* A plausible slip: the tracker entry is written without the test of line 215.
RegisterOverwrites(pending, call_id, previous_id) ==
    [c \in DOMAIN pending \cup {call_id} |->
        IF c = call_id THEN RTToolCall(call_id, previous_id) ELSE pending[c]]

\* Lines 215-216: a call is registered unless its id is in the tracker.
Register(pending, call_id, previous_id) ==
    IF call_id \in DOMAIN pending THEN pending
    ELSE [c \in DOMAIN pending \cup {call_id} |->
            IF c = call_id THEN RTToolCall(call_id, previous_id) ELSE pending[c]]

\* A plausible slip: the low-confidence branch asks to repeat and still lets
\* the original event through.
ItemCreatedLowConfidenceForwarded(message, pending) ==
    IF message.has_item /\ message.item_type = "text"
    THEN LET verdict == QualityVerdict(message.content, ConfidenceOf(message)) IN
         IF verdict = "reject-noise" THEN Effect(<<>>, <<>>, pending)
         ELSE IF verdict = "reject-low-confidence"
         THEN Effect(<<message>>, <<RepeatRequest>>, pending)
         ELSE Effect(<<dumps([message EXCEPT !.content = _apply_ssml_formatting(@)])>>,
                     <<>>, pending)
    ELSE IF message.has_item /\ message.item_type = "function_call"
    THEN Effect(<<>>, <<>>, Register(pending, message.call_id, message.previous_item_id))
    ELSE IF message.has_item /\ message.item_type = "function_call_output"
    THEN Effect(<<>>, <<>>, pending)
    ELSE Effect(<<message>>, <<>>, pending)

\* case "conversation.item.created"
On_conversation_item_created(message, pending) ==
    IF message.has_item /\ message.item_type = "text"
    THEN LET verdict == QualityVerdict(message.content, ConfidenceOf(message)) IN
         IF verdict = "reject-noise" THEN Effect(<<>>, <<>>, pending)
         ELSE IF verdict = "reject-low-confidence"
         THEN Effect(<<>>, <<RepeatRequest>>, pending)
         ELSE Effect(<<dumps([message EXCEPT !.content = _apply_ssml_formatting(@)])>>,
                     <<>>, pending)
    ELSE IF message.has_item /\ message.item_type = "function_call"
    THEN Effect(<<>>, <<>>, Register(pending, message.call_id, message.previous_item_id))
    ELSE IF message.has_item /\ message.item_type = "function_call_output"
    THEN Effect(<<>>, <<>>, pending)
    ELSE PassThrough(message, pending)

\* list.pop(i), i counted from 1.
Pop(list, i) == SubSeq(list, 1, i - 1) \o SubSeq(list, i + 1, Len(list))

\* The loop `for i, output in enumerate(message["response"]["output"])` of
\* response.done, which pops from the list it iterates: after a pop the
\* iterator's index still advances, so the entry that moved into place i is
\* never visited.  st = [output, replace]; i is the iterator's index from 1.
RECURSIVE OutputLoop(_, _)
OutputLoop(st, i) ==
    IF i > Len(st.output) THEN st
    ELSE IF st.output[i].type = "function_call"
    THEN OutputLoop([output |-> Pop(st.output, i), replace |-> TRUE], i + 1)
    ELSE IF st.output[i].type = "text"
    THEN OutputLoop([output |-> [st.output EXCEPT ![i].text = _apply_ssml_formatting(@)],
                     replace |-> TRUE], i + 1)
    ELSE OutputLoop(st, i + 1)

\* case "response.done"
On_response_done(message, pending) ==
    LET up == IF Cardinality(DOMAIN pending) > 0 THEN <<ResponseCreate>> ELSE <<>>
        left == IF Cardinality(DOMAIN pending) > 0 THEN <<>> ELSE pending
        st == IF message.has_response
              THEN OutputLoop([output |-> message.output, replace |-> FALSE], 1)
              ELSE [output |-> message.output, replace |-> FALSE]
    IN  IF st.replace
        THEN Effect(<<dumps([message EXCEPT !.output = st.output])>>, up, left)
        ELSE Effect(<<message>>, up, left)

\* The branch of response.output_item.done that calls a tool.
IsToolCallDone(message) ==
    /\ message.type = "response.output_item.done"
    /\ message.has_item
    /\ message.item_type = "function_call"

\* _process_message_to_client on every message but a tool call's done event.
_process_message_to_client(message, pending, srv) ==
    CASE message.type = "session.created" ->
            Effect(<<On_session_created(message, srv)>>, <<>>, pending)
      [] message.type = "response.output_item.added" ->
            Effect(On_output_item_added(message), <<>>, pending)
      [] message.type = "conversation.item.created" ->
            On_conversation_item_created(message, pending)
      [] message.type = "response.function_call_arguments.delta" ->
            Effect(<<>>, <<>>, pending)
      [] message.type = "response.function_call_arguments.done" ->
            Effect(<<>>, <<>>, pending)
      [] message.type = "response.done" ->
            On_response_done(message, pending)
      [] OTHER -> PassThrough(message, pending)


(***************************************************************************)
(* RTMiddleTier._process_message_to_server.                                *)
(***************************************************************************)

\* The default turn detection policy the relay injects.
SemanticVad == "{type: semantic_vad, create_response: true}"

\* [tool.schema for tool in self.tools.values()]
Schemas(tools) == [i \in DOMAIN tools |-> tools[i].schema]

\* A plausible slip: a configured value only fills in a field the client left out.
OverrideIfMissing(configured, client) ==
    IF client = Absent /\ configured # None THEN configured ELSE client

\* `if self.x is not None: session[key] = self.x`
Override(configured, client) ==
    IF configured # None THEN configured ELSE client

\* A plausible slip: the client's tool list and tool_choice are kept when given.
ServerToolsIfMissing(session, srv) ==
    IF session.tool_choice # Absent THEN session
    ELSE [session EXCEPT
            !.tool_choice = IF Len(srv.tools) > 0 THEN "auto" ELSE "none",
            !.tools = Schemas(srv.tools)]

\* Lines 297-298: tool_choice and tools are always the server's.
ServerTools(session, srv) ==
    [session EXCEPT
        !.tool_choice = IF Len(srv.tools) > 0 THEN "auto" ELSE "none",
        !.tools = Schemas(srv.tools)]

\* A plausible slip: the default is injected whenever the client gives no
\* usable policy (`if not session.get("turn_detection")`), null included.
TurnDetectionUnlessTruthy(session) ==
    IF session.turn_detection \in {Absent, None} THEN SemanticVad ELSE session.turn_detection

\* Lines 292-296: `if "turn_detection" not in session`, a test on the key.
TurnDetection(session) ==
    IF session.turn_detection = Absent THEN SemanticVad ELSE session.turn_detection

\* case "session.update"
On_session_update(message, srv) ==
    LET session == message.session
        configured ==
            [session EXCEPT
                !.instructions = Override(srv.system_message, @),
                !.temperature = Override(srv.temperature, @),
                !.max_response_output_tokens = Override(srv.max_tokens, @),
                !.disable_audio = Override(srv.disable_audio, @),
                !.voice = Override(srv.voice_choice, @),
                !.turn_detection = TurnDetection(session)]
    IN  dumps([message EXCEPT !.session = ServerTools(configured, srv)])

_process_message_to_server(message, srv) ==
    IF message.type = "session.update"
    THEN On_session_update(message, srv)
    ELSE message


(***************************************************************************)
(* The relay: RTMiddleTier._forward_messages, one instance of the handler  *)
(* per client connection, all on the one RTMiddleTier object of app.py.    *)
(***************************************************************************)

\* The client connections (sessions) that are served concurrently.
Sessions == {"A", "B"}

\* Frames received by the relay, over all sessions and both directions.
MaxFrames == 4

\* Function calls the upstream model makes in one session.
MaxCalls == 1

\* Call identifiers are generated upstream and never repeat, within a session
\* or across sessions.
CallIds(s) == {<<s, k>> : k \in 1..MaxCalls}

VARIABLES
    server,         \* the RTMiddleTier object's configuration and tools
    _tools_pending, \* RTMiddleTier._tools_pending: call id -> RTToolCall
    phase,          \* per session: "connecting", "open", "ended"
    s2c,            \* per session: from_server_to_client is "run", "tool" (awaiting
                    \*   a tool), "done", "failed" (an exception), "reset"
    c2s,            \* per session: from_client_to_server is "run", "done", "reset"
    clientWs,       \* per session: the client socket ws is "open" or "closed"
    serverWs,       \* per session: the upstream socket target_ws is "none", "open", "closed"
    toolCalls,      \* per session: the calls of tool.target made, in order
    awaiting,       \* per session: the locals of the handler suspended in a tool
    toClient,       \* per session: the frames sent on the client socket
    toServer,       \* per session: the frames sent on the upstream socket
    lastUp,         \* per session: the last frame received from upstream
    lastDown,       \* per session: the last frame received from the client
    nUp,            \* per session: the number of frames received from upstream
    nDown,          \* per session: the number of frames received from the client
    upstream,       \* per session: what upstream has said of each of its calls
    gate,           \* the quality gate applied to one input: content, confidence, verdict
    ssml,           \* the normalizer applied to one text: text, once, twice, applied
    auth0           \* one call of the diagnostic-log tool: its inputs and its outcome

\* The variables of the functions that are checked on their own.
probeVars == << gate, ssml, auth0 >>

relayVars ==
    << server, _tools_pending, phase, s2c, c2s, clientWs, serverWs, toolCalls,
       awaiting, toClient, toServer, lastUp, lastDown, nUp, nDown, upstream >>

\* The configuration app.py gives the middle tier: a system message, a voice
\* ("alloy" unless configured), and the tools its instructions name.
AppServer ==
    [ system_message |-> "system prompt", temperature |-> None,
      max_tokens |-> None, disable_audio |-> None, voice_choice |-> "alloy",
      tools |-> << [name |-> "search", schema |-> "search schema"],
                   [name |-> "report_grounding", schema |-> "grounding schema"],
                   [name |-> "get_auth0_logs", schema |-> "auth0 logs schema"] >> ]

\* self.tools[name] is defined.
HasTool(srv, name) == \E i \in DOMAIN srv.tools : srv.tools[i].name = name

NoAwait == [message |-> Blank, tool_call |-> RTToolCall(<<>>, "")]

RECURSIVE SumOver(_, _)
SumOver(f, S) ==
    IF S = {} THEN 0
    ELSE LET x == CHOOSE y \in S : TRUE IN f[x] + SumOver(f, S \ {x})

FramesReceived == SumOver(nUp, Sessions) + SumOver(nDown, Sessions)

RelayInit(servers) ==
    /\ server \in servers
    /\ _tools_pending = << >>
    /\ phase = [s \in Sessions |-> "connecting"]
    /\ s2c = [s \in Sessions |-> "run"]
    /\ c2s = [s \in Sessions |-> "run"]
    /\ clientWs = [s \in Sessions |-> "open"]
    /\ serverWs = [s \in Sessions |-> "none"]
    /\ toolCalls = [s \in Sessions |-> << >>]
    /\ awaiting = [s \in Sessions |-> NoAwait]
    /\ toClient = [s \in Sessions |-> << >>]
    /\ toServer = [s \in Sessions |-> << >>]
    /\ lastUp = [s \in Sessions |-> Blank]
    /\ lastDown = [s \in Sessions |-> Blank]
    /\ nUp = [s \in Sessions |-> 0]
    /\ nDown = [s \in Sessions |-> 0]
    /\ upstream = [s \in Sessions |-> [c \in CallIds(s) |-> "fresh"]]

NoGate == [content |-> << >>, confidence |-> DefaultConfidence, verdict |-> "none"]

NoSsml == [text |-> << >>, once |-> << >>, twice |-> << >>, applied |-> 0]

NoAuth0 == [called |-> FALSE]

(***************************************************************************)
(* The frames the peers send.                                              *)
(***************************************************************************)

UpstreamSession ==
    [SessionBlank EXCEPT !.instructions = "upstream prompt", !.voice = "echo",
                         !.tool_choice = "auto", !.tools = <<"upstream tool">>,
                         !.max_response_output_tokens = "inf",
                         !.turn_detection = "server_vad"]

SessionCreated(session) ==
    [Blank EXCEPT !.type = "session.created", !.session = session]

ItemEvent(type, item_type) ==
    [Blank EXCEPT !.type = type, !.has_item = TRUE, !.item_type = item_type]

TextAdded(text) ==
    [ItemEvent("response.output_item.added", "text") EXCEPT !.text = text]

UserText(content, confidence) ==
    [ItemEvent("conversation.item.created", "text") EXCEPT
        !.role = "user", !.content = content, !.confidence = confidence]

\* Only conversation.item.created carries previous_item_id.
CallEvent(type, call_id, name) ==
    [ItemEvent(type, "function_call") EXCEPT
        !.call_id = call_id, !.name = name,
        !.previous_item_id = IF type = "conversation.item.created" THEN "item_0" ELSE ""]

ResponseDone(output) ==
    [Blank EXCEPT !.type = "response.done", !.has_response = TRUE, !.output = output]

OtherEvent(type) == [Blank EXCEPT !.type = type]

BinaryFrame == [Blank EXCEPT !.kind = "BINARY"]

Hi == <<"h", "i">>

Um == <<"u", "m">>

Yes == <<"y", "e", "s">>

Ok == <<"o", "k">>

HelloThere == <<"h", "e", "l", "l", "o", " ", "t", "h", "e", "r", "e">>

SayAgain == <<"S", "a", "y", " ", "a", "g", "a", "i", "n">>

CallsIn(s, state) == {c \in CallIds(s) : upstream[s][c] = state}

\* The output list of a completed response: its function calls, then a text.
OutputOf(s) ==
    [i \in 1..Cardinality(CallsIn(s, "completed")) |-> OutputEntry("function_call", <<>>)]
        \o <<OutputEntry("text", Hi)>>

\* What upstream may send next in session s when it keeps to its protocol:
\* a function call item is added and created, then done, within one response;
\* a response is done once its items are.
ProtocolFrames(s) ==
    {TextAdded(Hi), UserText(Yes, 20), OtherEvent("response.audio.delta"), BinaryFrame}
    \cup {CallEvent("conversation.item.created", c, "get_auth0_logs") : c \in CallsIn(s, "fresh")}
    \cup {CallEvent("response.output_item.added", c, "get_auth0_logs") :
                c \in CallsIn(s, "fresh") \cup CallsIn(s, "announced")}
    \cup {CallEvent("response.output_item.done", c, "get_auth0_logs") : c \in CallsIn(s, "announced")}
    \cup (IF CallsIn(s, "announced") = {} THEN {ResponseDone(OutputOf(s))} ELSE {})

\* Upstream breaking the protocol: a done event for a call it never announced,
\* or one that names a tool the server does not have.
DesyncFrames(s) ==
    {CallEvent("response.output_item.done", c, "get_auth0_logs") : c \in CallsIn(s, "fresh")}
    \cup {CallEvent("response.output_item.done", c, "no_such_tool") : c \in CallsIn(s, "announced")}

UpstreamFrames(s) == ProtocolFrames(s) \cup DesyncFrames(s)

\* What upstream has said of its calls, after it sent message.
Said(s, message) ==
    IF message.kind = "TEXT" /\ message.has_item /\ message.item_type = "function_call"
       /\ message.call_id \in CallIds(s)
    THEN IF message.type = "conversation.item.created"
         THEN [upstream[s] EXCEPT ![message.call_id] = "announced"]
         ELSE IF message.type = "response.output_item.done"
         THEN [upstream[s] EXCEPT ![message.call_id] = "completed"]
         ELSE upstream[s]
    ELSE IF message.kind = "TEXT" /\ message.type = "response.done"
    THEN [c \in CallIds(s) |-> IF upstream[s][c] = "fresh" THEN "fresh" ELSE "retired"]
    ELSE upstream[s]

ClientSession ==
    [SessionBlank EXCEPT !.instructions = "client prompt", !.voice = "verse",
                         !.tool_choice = "required", !.tools = <<"client tool">>]

SessionUpdate(session) ==
    [Blank EXCEPT !.type = "session.update", !.session = session]

ClientFrames ==
    {SessionUpdate(ClientSession), OtherEvent("input_audio_buffer.append"), BinaryFrame}

ToolResult(text_type, text, destination) ==
    [text_type |-> text_type, text |-> text, destination |-> destination]

ToolResults == {ToolResult("str", <<"logs">>, d) : d \in {TO_SERVER, TO_CLIENT}}


(***************************************************************************)
(* The actions.                                                            *)
(***************************************************************************)

\* The entry of toolCalls for a call of tool.target that has not returned:
\* the call, the tool, and how many frames had gone upstream when it was made.
NoResult == ToolResult("pending", << >>, "none")

ToolCall(call_id, name, at) ==
    [call_id |-> call_id, name |-> name, at |-> at, result |-> NoResult]

\* session.ws_connect succeeds: the two forwarding loops start.
ConnectOK(s) ==
    /\ phase[s] = "connecting"
    /\ phase' = [phase EXCEPT ![s] = "open"]
    /\ serverWs' = [serverWs EXCEPT ![s] = "open"]
    /\ UNCHANGED << server, _tools_pending, s2c, c2s, clientWs, toolCalls, awaiting,
                    toClient, toServer, lastUp, lastDown, nUp, nDown, upstream >>
    /\ UNCHANGED probeVars

\* _forward_messages is left and _websocket_handler returns ws: the upstream
\* socket, if there is one, was closed on leaving `async with`, and the client
\* socket is closed with the response.
HandlerReturns(s) ==
    /\ phase' = [phase EXCEPT ![s] = "ended"]
    /\ clientWs' = [clientWs EXCEPT ![s] = "closed"]
    /\ serverWs' = [serverWs EXCEPT ![s] = IF @ = "none" THEN "none" ELSE "closed"]
    /\ awaiting' = [awaiting EXCEPT ![s] = NoAwait]

\* A plausible slip: the failure to connect is logged and the handler returns
\* without a word to the client.
ConnectFailLoggedOnly(s) ==
    /\ phase[s] = "connecting"
    /\ HandlerReturns(s)
    /\ UNCHANGED << server, _tools_pending, s2c, c2s, toolCalls, toClient, toServer,
                    lastUp, lastDown, nUp, nDown, upstream >>
    /\ UNCHANGED probeVars

\* session.ws_connect raises: `except Exception` sends the error to the client
\* and the handler returns.
ConnectFail(s) ==
    /\ phase[s] = "connecting"
    /\ HandlerReturns(s)
    /\ toClient' = [toClient EXCEPT ![s] = Append(@, ErrorMsg)]
    /\ UNCHANGED << server, _tools_pending, s2c, c2s, toolCalls, toServer,
                    lastUp, lastDown, nUp, nDown, upstream >>
    /\ UNCHANGED probeVars

\* A plausible slip: binary frames are taken for text frames too.
IsTextOrBinary(msg) == msg.kind \in {"TEXT", "BINARY"}

\* Lines 333 and 346: `msg.type == aiohttp.WSMsgType.TEXT`.
IsText(msg) == msg.kind = "TEXT"

\* A plausible slip: a frame is sent by the transformer and once more by the
\* loop it returns to.
SendStrTwice(sent, new_msg) == sent \o new_msg \o new_msg

\* Lines 335-336 and 348-349: `if new_msg is not None: await send_str(new_msg)`;
\* sent is what the socket has carried so far, new_msg has 0 or 1 frame.
send_str(sent, new_msg) == sent \o new_msg

\* from_server_to_client reads the next frame only between two handlers.
\* A plausible slip: the tool is not awaited, so the loop reads on meanwhile.
ServerLoopReadsDuringTool(s) == s2c[s] \in {"run", "tool"}

ServerLoopReady(s) == s2c[s] = "run"

\* A plausible slip: the exception is caught and logged inside the loop, which
\* goes on with the next frame.
RaiseLoggedInLoop(s) ==
    /\ s2c' = [s2c EXCEPT ![s] = "run"]
    /\ awaiting' = [awaiting EXCEPT ![s] = NoAwait]
    /\ UNCHANGED << phase, clientWs, serverWs, toClient >>
    /\ UNCHANGED << _tools_pending, toServer, c2s, toolCalls >>

\* An exception leaves from_server_to_client: gather re-raises it, the upstream
\* socket is closed on the way out, `except Exception` (line 361) sends the
\* error to the client (a send that itself raises when the client socket is
\* closed) and the handler returns.
Raise(s) ==
    /\ s2c' = [s2c EXCEPT ![s] = "failed"]
    /\ HandlerReturns(s)
    /\ toClient' = [toClient EXCEPT ![s] =
            IF clientWs[s] = "open" THEN Append(@, ErrorMsg) ELSE @]
    /\ UNCHANGED << _tools_pending, toServer, c2s, toolCalls >>

\* A send on a closed socket raises ConnectionResetError in from_server_to_client:
\* gather re-raises it, line 357 catches it, and the handler returns.
ServerLoopReset(s) ==
    /\ s2c' = [s2c EXCEPT ![s] = "reset"]
    /\ HandlerReturns(s)
    /\ UNCHANGED c2s

\* A plausible slip: the call is taken out of the tracker as it is looked up
\* (pop for []).
PendingPoppedAtDone(pending, call_id) ==
    [c \in DOMAIN pending \ {call_id} |-> pending[c]]

\* The tracker after `tool_call = self._tools_pending[call_id]` (line 230):
\* a lookup, which removes nothing.
PendingAfterDone(pending, call_id) == pending

\* One turn of from_server_to_client on a frame from upstream, up to the
\* handler's return or to its await of the tool.
ServerFrame(s, frames) ==
    /\ phase[s] = "open"
    /\ ServerLoopReady(s)
    /\ serverWs[s] = "open"
    /\ FramesReceived < MaxFrames
    /\ \E msg \in frames :
        /\ lastUp' = [lastUp EXCEPT ![s] = msg]
        /\ nUp' = [nUp EXCEPT ![s] = @ + 1]
        /\ upstream' = [upstream EXCEPT ![s] = Said(s, msg)]
        /\ IF ~IsText(msg)
           THEN UNCHANGED << _tools_pending, phase, s2c, c2s, clientWs, serverWs,
                             toolCalls, awaiting, toClient, toServer >>
           ELSE IF IsToolCallDone(msg)
           THEN IF msg.call_id \in DOMAIN _tools_pending /\ HasTool(server, msg.name)
                THEN /\ awaiting' = [awaiting EXCEPT ![s] =
                            [message |-> msg, tool_call |-> _tools_pending[msg.call_id]]]
                     /\ s2c' = [s2c EXCEPT ![s] = "tool"]
                     /\ toolCalls' = [toolCalls EXCEPT ![s] =
                            Append(@, ToolCall(msg.call_id, msg.name, Len(toServer[s])))]
                     /\ _tools_pending' = PendingAfterDone(_tools_pending, msg.call_id)
                     /\ UNCHANGED << phase, c2s, clientWs, serverWs, toClient, toServer >>
                ELSE Raise(s)
           ELSE LET e == _process_message_to_client(msg, _tools_pending, server) IN
                /\ _tools_pending' = e.pending
                /\ toServer' = [toServer EXCEPT ![s] = @ \o e.up]
                /\ UNCHANGED toolCalls
                /\ IF e.fwd # << >> /\ clientWs[s] = "closed"
                   THEN ServerLoopReset(s) /\ UNCHANGED toClient
                   ELSE /\ toClient' = [toClient EXCEPT ![s] = send_str(@, e.fwd)]
                        /\ UNCHANGED << phase, s2c, c2s, clientWs, serverWs, awaiting >>
    /\ UNCHANGED << server, lastDown, nDown >>
    /\ UNCHANGED probeVars
\* A plausible slip: the result text goes upstream whatever the destination.
OutputWhateverDestination(result) == to_text(result)

\* The "output" of the function_call_output item (line 240).
function_call_output(result) == IF result.destination = TO_SERVER THEN to_text(result) ELSE <<>>

\* toolCalls once the call in progress has returned result.
Returned(calls, result) == [calls EXCEPT ![Len(calls)].result = result]

\* The tool returns: the rest of the handler of response.output_item.done.
\* Either send raises ConnectionResetError when its socket is closed.
ToolReturn(s, results) ==
    /\ phase[s] = "open"
    /\ s2c[s] = "tool"
    /\ \E result \in results :
        LET item == awaiting[s].message
            tool_call == awaiting[s].tool_call
        IN  /\ toolCalls' = [toolCalls EXCEPT ![s] = Returned(@, result)]
            /\ IF serverWs[s] # "open"
               THEN ServerLoopReset(s) /\ UNCHANGED << toClient, toServer >>
               ELSE /\ toServer' = [toServer EXCEPT ![s] =
                            Append(@, FunctionCallOutput(item.call_id, function_call_output(result)))]
                    /\ IF result.destination = TO_CLIENT /\ clientWs[s] = "closed"
                       THEN ServerLoopReset(s) /\ UNCHANGED toClient
                       ELSE /\ toClient' = [toClient EXCEPT ![s] =
                                    IF result.destination = TO_CLIENT
                                    THEN Append(@, ToolResponse(tool_call.previous_id,
                                                    item.name, to_text(result)))
                                    ELSE @]
                            /\ s2c' = [s2c EXCEPT ![s] = "run"]
                            /\ awaiting' = [awaiting EXCEPT ![s] = NoAwait]
                            /\ UNCHANGED << phase, c2s, clientWs, serverWs >>
    /\ UNCHANGED << server, _tools_pending, lastUp, lastDown, nUp, nDown, upstream >>
    /\ UNCHANGED probeVars

\* The tool raises.
ToolRaises(s) ==
    /\ phase[s] = "open"
    /\ s2c[s] = "tool"
    /\ Raise(s)
    /\ UNCHANGED << server, lastUp, lastDown, nUp, nDown, upstream >>
    /\ UNCHANGED probeVars

\* target_ws.send_str raises ConnectionResetError in from_client_to_server:
\* gather re-raises it, line 357 catches it, and the handler returns.
ClientLoopReset(s) ==
    /\ c2s' = [c2s EXCEPT ![s] = "reset"]
    /\ HandlerReturns(s)
    /\ UNCHANGED s2c

\* What from_client_to_server sends upstream for a frame.
\* A plausible slip: the two loops share a lock that the handler holds while
\* it awaits the tool, and the frames that come meanwhile are dropped.
ClientSendsUnlessTool(s, msg) ==
    IF msg.kind = "TEXT" /\ s2c[s] # "tool"
    THEN <<_process_message_to_server(msg, server)>>
    ELSE << >>

ClientSends(s, msg) ==
    IF IsText(msg) THEN <<_process_message_to_server(msg, server)>> ELSE << >>

\* One turn of from_client_to_server on a frame from the client.
ClientFrame(s, frames) ==
    /\ phase[s] = "open"
    /\ c2s[s] = "run"
    /\ clientWs[s] = "open"
    /\ FramesReceived < MaxFrames
    /\ \E msg \in frames :
        /\ lastDown' = [lastDown EXCEPT ![s] = msg]
        /\ IF ClientSends(s, msg) # << >> /\ serverWs[s] # "open"
           THEN ClientLoopReset(s) /\ UNCHANGED toServer
           ELSE /\ toServer' = [toServer EXCEPT ![s] = send_str(@, ClientSends(s, msg))]
                /\ UNCHANGED << phase, s2c, c2s, clientWs, serverWs, awaiting >>
    /\ nDown' = [nDown EXCEPT ![s] = @ + 1]
    /\ UNCHANGED << server, _tools_pending, toolCalls, toClient, lastUp, nUp, upstream >>
    /\ UNCHANGED probeVars

\* The client closes its socket, gracefully or by a reset.
ClientCloses(s) ==
    /\ phase[s] = "open"
    /\ clientWs[s] = "open"
    /\ clientWs' = [clientWs EXCEPT ![s] = "closed"]
    /\ UNCHANGED << server, _tools_pending, phase, s2c, c2s, serverWs, toolCalls, awaiting,
                    toClient, toServer, lastUp, lastDown, nUp, nDown, upstream >>
    /\ UNCHANGED probeVars

\* `async for msg in ws` ends on the closed client socket, and
\* from_client_to_server closes the upstream socket (lines 341-344).
ClientLoopEnds(s) ==
    /\ phase[s] = "open"
    /\ c2s[s] = "run"
    /\ clientWs[s] = "closed"
    /\ c2s' = [c2s EXCEPT ![s] = "done"]
    /\ serverWs' = [serverWs EXCEPT ![s] = "closed"]
    /\ UNCHANGED << server, _tools_pending, phase, s2c, clientWs, toolCalls, awaiting,
                    toClient, toServer, lastUp, lastDown, nUp, nDown, upstream >>
    /\ UNCHANGED probeVars

\* Upstream closes its socket, gracefully or by an error.
UpstreamCloses(s) ==
    /\ phase[s] = "open"
    /\ serverWs[s] = "open"
    /\ serverWs' = [serverWs EXCEPT ![s] = "closed"]
    /\ UNCHANGED << server, _tools_pending, phase, s2c, c2s, clientWs, toolCalls, awaiting,
                    toClient, toServer, lastUp, lastDown, nUp, nDown, upstream >>
    /\ UNCHANGED probeVars

\* `async for msg in target_ws` ends on the closed upstream socket:
\* from_server_to_client returns, and closes nothing (lines 346-353).
ServerLoopEnds(s) ==
    /\ phase[s] = "open"
    /\ ServerLoopReady(s)
    /\ serverWs[s] = "closed"
    /\ s2c' = [s2c EXCEPT ![s] = "done"]
    /\ UNCHANGED << server, _tools_pending, phase, c2s, clientWs, serverWs, toolCalls,
                    awaiting, toClient, toServer, lastUp, lastDown, nUp, nDown, upstream >>
    /\ UNCHANGED probeVars

\* Both loops have returned: asyncio.gather returns and the handler with it.
GatherReturns(s) ==
    /\ phase[s] = "open"
    /\ c2s[s] = "done"
    /\ s2c[s] = "done"
    /\ HandlerReturns(s)
    /\ UNCHANGED << server, _tools_pending, s2c, c2s, toolCalls, toClient, toServer,
                    lastUp, lastDown, nUp, nDown, upstream >>
    /\ UNCHANGED probeVars

vars == << relayVars, probeVars >>

\* Two sessions on the middle tier of app.py, their sockets staying open.
Init == RelayInit({AppServer}) /\ gate = NoGate /\ ssml = NoSsml /\ auth0 = NoAuth0

Next ==
    \E s \in Sessions :
        \/ ConnectOK(s)
        \/ ConnectFail(s)
        \/ ServerFrame(s, UpstreamFrames(s))
        \/ ToolReturn(s, ToolResults)
        \/ ToolRaises(s)
        \/ ClientFrame(s, ClientFrames)

Spec == Init /\ [][Next]_vars

(***************************************************************************)
(* One session whose sockets stay open, with tools that return every kind  *)
(* of result: the tool-calling orchestration on its own.                   *)
(***************************************************************************)

\* A ToolResult text is a str, None, or something json.dumps must serialize.
AllToolResults ==
    {ToolResult(t[1], t[2], d) :
        t \in { <<"str", <<"logs">> >>, <<"str", << >> >>, <<"NoneType", << >> >>,
                <<"dict", <<"sources">> >> },
        d \in {TO_SERVER, TO_CLIENT}}

\* Upstream repeating itself: the created event of a call once more, with
\* another preceding item, and the done event of a call of a response that
\* is over.
RepeatedFrames(s) ==
    {[CallEvent("conversation.item.created", c, "get_auth0_logs") EXCEPT
            !.previous_item_id = "item_9"] : c \in CallsIn(s, "announced")}
    \cup {CallEvent("response.output_item.done", c, "get_auth0_logs") : c \in CallsIn(s, "retired")}

\* Events the relay has no branch for: items that are neither text nor
\* function calls in the three kinds that look at the item, the same kinds
\* without an item, and a kind the dispatch does not name.
UnhandledFrames ==
    {ItemEvent(t, "message") :
        t \in {"response.output_item.added", "conversation.item.created",
               "response.output_item.done"}}
    \cup {OtherEvent("response.output_item.done"), OtherEvent("response.created")}

NextCall ==
    \/ ConnectOK("A")
    \/ ServerFrame("A", UpstreamFrames("A") \cup RepeatedFrames("A") \cup UnhandledFrames)
    \/ ToolReturn("A", AllToolResults)
    \/ ToolRaises("A")
    \/ ClientFrame("A", ClientFrames)

SpecCall == Init /\ [][NextCall]_vars

\* The item types each kind of upstream event has a branch for.
HandledItems(type) ==
    CASE type = "response.output_item.added" -> {"text", "function_call"}
      [] type = "conversation.item.created" -> {"text", "function_call", "function_call_output"}
      [] type = "response.output_item.done" -> {"function_call"}
      [] OTHER -> {}

\* The kinds of upstream event the dispatch names.
HandledKinds ==
    {"session.created", "response.output_item.added", "conversation.item.created",
     "response.function_call_arguments.delta", "response.function_call_arguments.done",
     "response.output_item.done", "response.done"}

\* An upstream text frame the relay has nothing to do for.
Unhandled(message) ==
    /\ message.kind = "TEXT"
    /\ \/ message.type \notin HandledKinds
       \/ /\ HandledItems(message.type) # {}
          /\ ~(message.has_item /\ message.item_type \in HandledItems(message.type))

\* C25: a client text frame that is not a session.update is sent upstream as
\* the client sent it, and an upstream text frame of a kind (or with an item
\* type) the relay has no branch for is sent to the client as upstream sent
\* it; nothing else is sent either way and the tracker is unchanged.
C25_PassThroughByDefault ==
    [][LET s == "A" IN
        /\ (nUp'[s] = nUp[s] + 1 /\ Unhandled(lastUp'[s])) =>
                /\ toClient'[s] = Append(toClient[s], lastUp'[s])
                /\ toServer'[s] = toServer[s]
                /\ _tools_pending' = _tools_pending
        /\ (/\ nDown'[s] = nDown[s] + 1
            /\ lastDown'[s].kind = "TEXT"
            /\ lastDown'[s].type # "session.update") =>
                /\ toServer'[s] = Append(toServer[s], lastDown'[s])
                /\ toClient'[s] = toClient[s]
                /\ _tools_pending' = _tools_pending
      ]_vars

\* C25 happens: while a call is in the tracker, a done event for a message
\* item has just reached the client, after a client frame that is not a
\* session.update went upstream.
C25_Witness ==
    /\ lastUp["A"] = ItemEvent("response.output_item.done", "message")
    /\ toClient["A"] # << >>
    /\ toClient["A"][Len(toClient["A"])] = lastUp["A"]
    /\ DOMAIN _tools_pending # {}
    /\ lastDown["A"] = OtherEvent("input_audio_buffer.append")
    /\ toServer["A"] # << >>
    /\ toServer["A"][Len(toServer["A"])] = lastDown["A"]

\* What the relay holds of session s, its loops and its sockets.
SessionState(s) ==
    << _tools_pending, phase[s], s2c[s], c2s[s], clientWs[s], serverWs[s], awaiting[s],
       toolCalls[s] >>

\* C26: a frame that is not a text frame, from either peer, is dropped:
\* nothing is sent to either side for it, the tracker, the sockets and a
\* tool call in progress are as before, and the loop that received it is
\* still running, ready for the next frame.
C26_NonTextFrameDropped ==
    [][LET s == "A" IN
        /\ (nUp'[s] = nUp[s] + 1 /\ lastUp'[s].kind # "TEXT") =>
                /\ toClient'[s] = toClient[s]
                /\ toServer'[s] = toServer[s]
                /\ SessionState(s)' = SessionState(s)
                /\ s2c'[s] = "run"
        /\ (nDown'[s] = nDown[s] + 1 /\ lastDown'[s].kind # "TEXT") =>
                /\ toClient'[s] = toClient[s]
                /\ toServer'[s] = toServer[s]
                /\ SessionState(s)' = SessionState(s)
                /\ c2s'[s] = "run"
      ]_vars

\* C26 happens: the last frame from each peer was a binary frame, received
\* while a call was in the tracker; the session is open, both loops run, and
\* nothing has been sent to either side.
C26_Witness ==
    /\ lastUp["A"].kind = "BINARY"
    /\ lastDown["A"].kind = "BINARY"
    /\ DOMAIN _tools_pending # {}
    /\ s2c["A"] = "run"
    /\ c2s["A"] = "run"
    /\ phase["A"] = "open"
    /\ toClient["A"] = << >>
    /\ toServer["A"] = << >>

\* C27: the connection failure error event reaches a client only if the
\* upstream connection was never made: a session that connected never has it
\* among the frames sent to its client, whatever happened during the relay.
C27_ErrorOnlyIfNeverConnected ==
    \A s \in Sessions :
        serverWs[s] # "none" =>
            \A i \in DOMAIN toClient[s] : toClient[s][i] # ErrorMsg

(***************************************************************************)
(* One session whose peers number their events: event_id n is the n-th      *)
(* frame the peer sent, so that what was sent on can be traced to what was  *)
(* received.                                                               *)
(***************************************************************************)

Numbered(frames, n) == {[f EXCEPT !.event_id = n] : f \in frames}

OrderFromUpstream ==
    ServerFrame("A", Numbered(UpstreamFrames("A") \cup UnhandledFrames, nUp["A"] + 1))

OrderFromClient == ClientFrame("A", Numbered(ClientFrames, nDown["A"] + 1))

NextOrder ==
    \/ ConnectOK("A")
    \/ OrderFromUpstream
    \/ ToolReturn("A", ToolResults)
    \/ ToolRaises("A")
    \/ OrderFromClient

SpecOrder == Init /\ [][NextOrder]_vars

HasEventId(frame) == frame.event_id > 0

\* The event ids of the frames of a log that have one, in the log's order.
EventIds(log) ==
    LET numbered == SelectSeq(log, HasEventId)
    IN  [i \in DOMAIN numbered |-> numbered[i].event_id]

Increasing(ids) == \A i, j \in DOMAIN ids : i < j => ids[i] < ids[j]

IsPrefix(a, b) == Len(a) <= Len(b) /\ SubSeq(b, 1, Len(a)) = a

\* The frames a step added to a log.
Added(before, after) == SubSeq(after, Len(before) + 1, Len(after))

\* C28: each direction preserves order and duplicates nothing.  What has
\* been sent is never reordered or taken back; the frames sent to the client
\* that are upstream's own events carry increasing event ids, and so do the
\* client's frames sent upstream; a frame upstream's event gives rise to is
\* sent while that event is the last one received (the tool response while
\* its done event is being handled), and a client's frame is sent upstream
\* while it is the last one received.
C28_OrderPreserved ==
    [][LET s == "A"
           toC == Added(toClient[s], toClient'[s])
           toS == Added(toServer[s], toServer'[s])
       IN  /\ IsPrefix(toClient[s], toClient'[s])
           /\ IsPrefix(toServer[s], toServer'[s])
           /\ Increasing(EventIds(toClient'[s]))
           /\ Increasing(EventIds(toServer'[s]))
           /\ \A i \in DOMAIN toC :
                \/ HasEventId(toC[i]) /\ toC[i].event_id = nUp'[s] /\ nUp'[s] = nUp[s] + 1
                \/ /\ toC[i].type = "extension.middle_tier_tool_response"
                   /\ s2c[s] = "tool"
                   /\ awaiting[s].message.event_id = nUp[s]
                   /\ nUp'[s] = nUp[s]
                \/ toC[i] = ErrorMsg
           /\ \A i \in DOMAIN toS :
                HasEventId(toS[i]) => (toS[i].event_id = nDown'[s] /\ nDown'[s] = nDown[s] + 1)
      ]_vars

\* C28 happens: a call was announced and done (events 1 and 2, not forwarded),
\* the client's first frame went upstream while the tool was awaited, ahead
\* of the tool's output; the tool response reached the client, and after it
\* upstream's third event.
C28_Witness ==
    /\ Len(toClient["A"]) = 2
    /\ toClient["A"][1].type = "extension.middle_tier_tool_response"
    /\ toClient["A"][2].event_id = 3
    /\ Len(toServer["A"]) = 2
    /\ toServer["A"][1].event_id = 1
    /\ toServer["A"][2].item_type = "function_call_output"

(***************************************************************************)
(* One session with its whole life: either peer may close its socket at    *)
(* any time once the session is open.                                      *)
(***************************************************************************)

NextLife ==
    \/ ConnectOK("A")
    \/ ConnectFail("A")
    \/ ServerFrame("A", UpstreamFrames("A"))
    \/ ToolReturn("A", ToolResults)
    \/ ToolRaises("A")
    \/ ClientFrame("A", ClientFrames)
    \/ ClientCloses("A")
    \/ UpstreamCloses("A")
    \/ ClientLoopEnds("A")
    \/ ServerLoopEnds("A")
    \/ GatherReturns("A")

\* The event loop runs each task that can run; a tool that was called returns
\* or raises.  The peers owe nothing: they may stay silent for ever.
LifeFairness ==
    /\ WF_vars(ClientLoopEnds("A"))
    /\ WF_vars(ServerLoopEnds("A"))
    /\ WF_vars(GatherReturns("A"))
    /\ WF_vars(ToolReturn("A", ToolResults) \/ ToolRaises("A"))

SpecLife == Init /\ [][NextLife]_vars /\ LifeFairness

(***************************************************************************)
(* The quality gate on its own: every content made of at most MaxPieces    *)
(* pieces, with every confidence of Confidences.                           *)
(***************************************************************************)

MaxPieces == 3

Pieces ==
    { <<" ">>, <<" ", "\t", " ", "\n", " ">>, <<"y", "e", "s">>, <<"o", "k">>,
      <<"U", "m">>, <<"h", "m", "m">>, <<"m", "m">>, <<"A", "g", "a", "i", "n">>,
      <<"r", "e", "p", "e", "a", "t">>, <<"h", "e", "l", "l", "o">> }

RECURSIVE Flatten(_)
Flatten(pieces) ==
    IF pieces = << >> THEN << >> ELSE Head(pieces) \o Flatten(Tail(pieces))

Contents == {Flatten(ps) : ps \in UNION {[1..n -> Pieces] : n \in 0..MaxPieces}}

Confidences == {0, 20, 34, 35, 40, 49, 50, 90, 100}

InitGate ==
    /\ RelayInit({AppServer})
    /\ gate \in {[content |-> c, confidence |-> k, verdict |-> "none"] :
                    c \in Contents, k \in Confidences}
    /\ ssml = NoSsml
    /\ auth0 = NoAuth0

\* The chain of rtmt.py 175-212 decides on the input.
Classify ==
    /\ gate.verdict = "none"
    /\ gate' = [gate EXCEPT !.verdict = QualityVerdict(gate.content, gate.confidence)]
    /\ UNCHANGED << relayVars, ssml, auth0 >>

NextGate == Classify

SpecGate == InitGate /\ [][NextGate]_vars


(***************************************************************************)
(* Properties of the quality gate, checked under SpecGate.                 *)
(***************************************************************************)

NonBlank(content) == {i \in DOMAIN content : content[i] \notin {" ", "\t", "\n"}}

\* The content without its leading and trailing whitespace.
Trimmed(content) ==
    IF NonBlank(content) = {} THEN << >>
    ELSE LET first == CHOOSE i \in NonBlank(content) : \A j \in NonBlank(content) : i <= j
             last == CHOOSE i \in NonBlank(content) : \A j \in NonBlank(content) : j <= i
         IN  SubSeq(content, first, last)

FillerWords ==
    { <<"h", "m", "m">>, <<"u", "m">>, <<"u", "h">>, <<"m", "m">>, <<"h", "m">> }

OneCharRepeated(t) == t # << >> /\ \A i \in DOMAIN t : t[i] = t[1]

RepeatPhrases ==
    { <<"r", "e", "p", "e", "a", "t">>,
      <<"a", "g", "a", "i", "n">>,
      <<"d", "i", "d", "n", "'", "t", " ", "h", "e", "a", "r">>,
      <<"s", "a", "y", " ", "t", "h", "a", "t", " ", "a", "g", "a", "i", "n">> }

HasRepeatPhrase(content) ==
    \E p \in RepeatPhrases :
        \E i \in DOMAIN content :
            /\ i + Len(p) - 1 <= Len(content)
            /\ \A k \in DOMAIN p : LowerChar(content[i + k - 1]) = p[k]

\* C9: the gate rejects a content as noise if and only if its trimmed,
\* lower-cased form is shorter than 3, or is one of the filler words, or is
\* one character repeated; the confidence plays no part in it.
C9_NoiseIffShortFillerOrRepeated ==
    gate.verdict # "none" =>
        LET t == lower(Trimmed(gate.content)) IN
        (gate.verdict = "reject-noise") <=>
            (Len(t) < 3 \/ t \in FillerWords \/ OneCharRepeated(t))

\* C9 happens: a content of 3 or more characters that is no filler word is
\* rejected as noise, being one character repeated.
C9_Witness ==
    /\ gate.verdict = "reject-noise"
    /\ Len(lower(Trimmed(gate.content))) >= 3
    /\ lower(Trimmed(gate.content)) \notin FillerWords

\* C10: for a content that is not noise, the verdict is low-confidence exactly
\* when confidence < 0.35, or confidence < 0.5 and the trimmed content is
\* shorter than 8, or the content holds a repeat-request phrase; else accept.
C10_LowConfidenceOnTrimmedLength ==
    gate.verdict \notin {"none", "reject-noise"} =>
        /\ gate.verdict \in {"reject-low-confidence", "accept"}
        /\ (gate.verdict = "reject-low-confidence") <=>
                \/ gate.confidence < 35
                \/ gate.confidence < 50 /\ Len(Trimmed(gate.content)) < 8
                \/ HasRepeatPhrase(gate.content)

(***************************************************************************)
(* The normalizer on its own: every text made of at most MaxPieces pieces  *)
(* of SsmlPieces, normalized and then normalized again.                    *)
(***************************************************************************)

SsmlPieces ==
    { Hi, <<" ">>, SpeakTag, <<"</speak>">>, <<"<speak version=\"1.0\">">>,
      SsmlPrefix, SsmlSuffix }

Texts == {Flatten(ps) : ps \in UNION {[1..n -> SsmlPieces] : n \in 0..MaxPieces}}

InitSsml ==
    /\ RelayInit({AppServer})
    /\ gate = NoGate
    /\ auth0 = NoAuth0
    /\ ssml \in {[NoSsml EXCEPT !.text = t] : t \in Texts}

\* _apply_ssml_formatting(text)
ApplyOnce ==
    /\ ssml.applied = 0
    /\ ssml' = [ssml EXCEPT !.once = _apply_ssml_formatting(ssml.text), !.applied = 1]
    /\ UNCHANGED << relayVars, gate, auth0 >>

\* _apply_ssml_formatting on what it returned.
ApplyTwice ==
    /\ ssml.applied = 1
    /\ ssml' = [ssml EXCEPT !.twice = _apply_ssml_formatting(ssml.once), !.applied = 2]
    /\ UNCHANGED << relayVars, gate, auth0 >>

NextSsml == ApplyOnce \/ ApplyTwice

SpecSsml == InitSsml /\ [][NextSsml]_vars

HasMarker(text) == \E i \in DOMAIN text : text[i] = "<speak>"

\* C15: normalizing a normalized text changes nothing, and a text that
\* holds the envelope marker is returned as it is.
C15_NormalizerIdempotent ==
    ssml.applied = 2 =>
        /\ ssml.twice = ssml.once
        /\ HasMarker(ssml.text) => ssml.once = ssml.text

\* C15 happens: a text without the marker was wrapped by the first
\* application and left alone by the second.
C15_Witness ==
    /\ ssml.applied = 2
    /\ ssml.text # << >>
    /\ ~HasMarker(ssml.text)
    /\ ssml.once # ssml.text
    /\ ssml.twice = ssml.once

\* C11: a content with confidence >= 0.5 and 8 or more characters that holds
\* no repeat-request phrase is never classified low-confidence.
C11_ConfidentLongNeverLow ==
    /\ gate.verdict # "none"
    /\ gate.confidence >= 50
    /\ Len(gate.content) >= 8
    /\ ~HasRepeatPhrase(gate.content)
    => gate.verdict # "reject-low-confidence"

\* C11 happens: such a content, at exactly 0.5, passed both tests of the gate.
C11_Witness ==
    /\ gate.verdict = "accept"
    /\ gate.confidence = 50
    /\ Len(Trimmed(gate.content)) >= 8
    /\ ~HasRepeatPhrase(gate.content)


(***************************************************************************)
(* One frame in one session, with every payload of the sets below and      *)
(* every server configuration: the transformers as functions of a message. *)
(***************************************************************************)

\* The most entries a response's output list has.
MaxOutputs == 3

Chosen(value) == {None, value}

ServerConfigs ==
    [ system_message : Chosen("system prompt"), temperature : Chosen("0.7"),
      max_tokens : Chosen("4096"), disable_audio : Chosen("False"),
      voice_choice : Chosen("alloy"),
      tools : { << >>,
                << [name |-> "get_auth0_logs", schema |-> "auth0 logs schema"] >>,
                AppServer.tools } ]

UpstreamSessions ==
    { [SessionBlank EXCEPT !.instructions = i, !.tools = t, !.voice = v,
                           !.tool_choice = c, !.max_response_output_tokens = m] :
        i \in {Absent, "", "upstream prompt"},
        t \in {<< >>, <<"upstream tool">>},
        v \in {"echo", "alloy"},
        c \in {"auto", "none"},
        m \in {"inf", "4096", None} }

OutputEntries ==
    { OutputEntry("function_call", << >>),
      OutputEntry("text", Hi),
      OutputEntry("text", SsmlPrefix \o Yes \o SsmlSuffix),
      OutputEntry("message", << >>),
      OutputEntry("audio", << >>) }

OutputLists == UNION {[1..n -> OutputEntries] : n \in 0..MaxOutputs}

Given(value) == {Absent, value}

ClientSessions ==
    { [SessionBlank EXCEPT !.instructions = i, !.temperature = t,
                           !.max_response_output_tokens = m, !.disable_audio = d,
                           !.voice = v, !.turn_detection = td,
                           !.tool_choice = tc[1], !.tools = tc[2]] :
        i \in Given("client prompt"), t \in Given("1.2"), m \in Given("100"),
        d \in Given("True"), v \in Given("verse"),
        td \in {Absent, None, "server_vad"},
        tc \in {<<Absent, << >> >>, <<"required", <<"client tool">> >>} }

FrameContents ==
    { << >>, Ok, Um, <<" ">> \o Um \o <<" ", "\n">>, Yes, Yes \o <<" ", " ", " ", " ", " ">>,
      HelloThere, SayAgain, SsmlPrefix \o Yes \o SsmlSuffix }

FrameConfidences == {NoConfidence, 20, 40, 90}

FrameUpstreamFrames ==
    {SessionCreated(p) : p \in UpstreamSessions}
    \cup {ResponseDone(o) : o \in OutputLists}
    \cup {[Blank EXCEPT !.type = "response.done"]}
    \cup {UserText(c, k) : c \in FrameContents, k \in FrameConfidences}

FrameClientFrames == {SessionUpdate(p) : p \in ClientSessions}

InitFrame == RelayInit(ServerConfigs) /\ gate = NoGate /\ ssml = NoSsml /\ auth0 = NoAuth0

FrameConnect == ConnectOK("A")

FrameFromUpstream == FramesReceived = 0 /\ ServerFrame("A", FrameUpstreamFrames)

FrameFromClient == FramesReceived = 0 /\ ClientFrame("A", FrameClientFrames)

NextFrame == FrameConnect \/ FrameFromUpstream \/ FrameFromClient

SpecFrame == InitFrame /\ [][NextFrame]_vars

(***************************************************************************)
(* Properties of the transformers on one frame, checked under SpecFrame.   *)
(***************************************************************************)

\* C2: the session.created event forwarded to the client has empty
\* instructions, an empty tool list, no max-output-token cap, tool_choice
\* "none" and the server's configured voice, whatever upstream sent.
C2_SessionCreatedRedacted ==
    lastUp["A"].type = "session.created" =>
        /\ Len(toClient["A"]) = 1
        /\ toClient["A"][1].type = "session.created"
        /\ LET session == toClient["A"][1].session IN
            /\ session.instructions = ""
            /\ session.tools = << >>
            /\ session.max_response_output_tokens = None
            /\ session.tool_choice = "none"
            /\ session.voice = server.voice_choice

\* C2 happens: a session.created with instructions, tools, a token cap,
\* tool_choice "auto" and another voice than the configured one is handled.
C2_Witness ==
    /\ lastUp["A"].type = "session.created"
    /\ lastUp["A"].session.instructions = "upstream prompt"
    /\ lastUp["A"].session.tools # << >>
    /\ lastUp["A"].session.max_response_output_tokens = "4096"
    /\ lastUp["A"].session.tool_choice = "auto"
    /\ server.voice_choice = "alloy"
    /\ lastUp["A"].session.voice = "echo"
    /\ Len(toClient["A"]) = 1

IsOtherEntry(entry) == entry.type \notin {"function_call", "text"}

\* C6: the response.done payload forwarded to the client has no function
\* call entry in its output list, every text entry of it carries the markup
\* envelope, and the other entries are kept in their order.
C6_ResponseDoneOutputFiltered ==
    (lastUp["A"].type = "response.done" /\ lastUp["A"].has_response) =>
        /\ Len(toClient["A"]) = 1
        /\ LET output == toClient["A"][1].output IN
            /\ \A i \in DOMAIN output : output[i].type # "function_call"
            /\ \A i \in DOMAIN output :
                    output[i].type = "text" =>
                        /\ SubSeq(output[i].text, 1, Len(SsmlPrefix)) = SsmlPrefix
                        /\ Contains(output[i].text, SsmlSuffix)
            /\ SelectSeq(output, IsOtherEntry) = SelectSeq(lastUp["A"].output, IsOtherEntry)

\* The session of the one session.update sent upstream, and the client's.
SentSession == toServer["A"][1].session

ClientsSession == lastDown["A"].session

SessionUpdateHandled ==
    /\ lastDown["A"].type = "session.update"
    /\ Len(toServer["A"]) = 1
    /\ toServer["A"][1].type = "session.update"

\* C7: in the session.update sent upstream, each of instructions,
\* temperature, max-output-tokens, audio-disable flag and voice is the
\* server's value when the server has one, and the client's own (or absent)
\* when it has none.
C7_ConfiguredFieldsOverride ==
    lastDown["A"].type = "session.update" =>
        /\ SessionUpdateHandled
        /\ server.system_message # None => SentSession.instructions = server.system_message
        /\ server.system_message = None => SentSession.instructions = ClientsSession.instructions
        /\ server.temperature # None => SentSession.temperature = server.temperature
        /\ server.temperature = None => SentSession.temperature = ClientsSession.temperature
        /\ server.max_tokens # None =>
                SentSession.max_response_output_tokens = server.max_tokens
        /\ server.max_tokens = None =>
                SentSession.max_response_output_tokens = ClientsSession.max_response_output_tokens
        /\ server.disable_audio # None => SentSession.disable_audio = server.disable_audio
        /\ server.disable_audio = None => SentSession.disable_audio = ClientsSession.disable_audio
        /\ server.voice_choice # None => SentSession.voice = server.voice_choice
        /\ server.voice_choice = None => SentSession.voice = ClientsSession.voice

\* C7 happens: the client gives instructions and a temperature, and leaves out
\* the voice; the server has a system message and no temperature.
C7_Witness ==
    /\ SessionUpdateHandled
    /\ ClientsSession.instructions = "client prompt"
    /\ ClientsSession.temperature = "1.2"
    /\ ClientsSession.voice = Absent
    /\ server.system_message = "system prompt"
    /\ server.temperature = None
    /\ server.voice_choice = None

\* C8: every session.update sent upstream carries the schemas of exactly the
\* server's tools, in the registry's order, and tool_choice "auto" when there
\* is a tool and "none" when there is none, whatever the client supplied.
C8_ToolsAreTheServers ==
    lastDown["A"].type = "session.update" =>
        /\ SessionUpdateHandled
        /\ Len(SentSession.tools) = Len(server.tools)
        /\ \A i \in DOMAIN server.tools : SentSession.tools[i] = server.tools[i].schema
        /\ server.tools # << >> => SentSession.tool_choice = "auto"
        /\ server.tools = << >> => SentSession.tool_choice = "none"

\* C8 happens: the client supplies a tool list and tool_choice "required" to
\* a server that has tools.
C8_Witness ==
    /\ SessionUpdateHandled
    /\ ClientsSession.tools = <<"client tool">>
    /\ ClientsSession.tool_choice = "required"
    /\ Len(server.tools) = 3

\* C24: for a session.update the relay injects the default turn detection
\* policy (semantic VAD with automatic response creation) exactly when the
\* client's session object has no turn_detection key; a policy the client
\* supplied, null included, is sent upstream as the client gave it.
C24_DefaultTurnDetectionIffMissing ==
    lastDown["A"].type = "session.update" =>
        /\ SessionUpdateHandled
        /\ ClientsSession.turn_detection = Absent => SentSession.turn_detection = SemanticVad
        /\ ClientsSession.turn_detection # Absent =>
                /\ SentSession.turn_detection = ClientsSession.turn_detection
                /\ SentSession.turn_detection # SemanticVad

\* C24 happens: a client that sent "turn_detection": null had null sent
\* upstream, by a server that overrides other fields of the session.
C24_Witness ==
    /\ SessionUpdateHandled
    /\ ClientsSession.turn_detection = None
    /\ SentSession.turn_detection = None
    /\ server.system_message = "system prompt"
    /\ SentSession.instructions = "system prompt"

\* The frame handled is a text item of conversation.item.created.
UserTextHandled ==
    /\ lastUp["A"].type = "conversation.item.created"
    /\ lastUp["A"].has_item
    /\ lastUp["A"].item_type = "text"

Enveloped(text) ==
    <<"<speak>", "<lang xml:lang=\"en-US\">", "<prosody rate=\"fast\">">>
        \o text \o <<"</prosody>", "</lang>", "</speak>">>

\* C12 as stated: the text "ok" at confidence 0.9 is forwarded to the client
\* with its content in the envelope, and nothing is sent upstream.
C12_OkAccepted ==
    lastUp["A"] = UserText(Ok, 90) =>
        /\ toClient["A"] = <<dumps([UserText(Ok, 90) EXCEPT !.content = Enveloped(Ok)])>>
        /\ toServer["A"] = << >>

\* C12, amended: the text "ok" at confidence 0.9, two characters long, is
\* dropped as noise, with nothing sent to the client and nothing upstream; a
\* text of three characters that is no noise, "yes", at confidence 0.9 is
\* forwarded to the client with its content in the envelope, and nothing is
\* sent upstream.
C12_OkDroppedYesAccepted ==
    /\ lastUp["A"] = UserText(Ok, 90) =>
            toClient["A"] = << >> /\ toServer["A"] = << >>
    /\ lastUp["A"] = UserText(Yes, 90) =>
            /\ toClient["A"] = <<dumps([UserText(Yes, 90) EXCEPT !.content = Enveloped(Yes)])>>
            /\ toServer["A"] = << >>

\* C12 happens: the text "ok" at confidence 0.9 has been handled.
C12_Witness == nUp["A"] = 1 /\ lastUp["A"] = UserText(Ok, 90)

\* C13: a text item classified low-confidence is not forwarded, nothing is
\* sent to the client, and exactly one frame goes upstream: a text item
\* authored by the assistant that asks to repeat, in the envelope.
C13_LowConfidenceAsksToRepeat ==
    /\ UserTextHandled
    /\ QualityVerdict(lastUp["A"].content, ConfidenceOf(lastUp["A"])) = "reject-low-confidence"
    => /\ toClient["A"] = << >>
       /\ Len(toServer["A"]) = 1
       /\ toServer["A"][1].type = "conversation.item.create"
       /\ toServer["A"][1].item_type = "text"
       /\ toServer["A"][1].role = "assistant"
       /\ toServer["A"][1].content = Enveloped(repeat_text)

\* C13 happens: the text "yes" at confidence 0.2 was answered so.
C13_Witness ==
    /\ lastUp["A"] = UserText(Yes, 20)
    /\ Len(toServer["A"]) = 1
    /\ toServer["A"][1].role = "assistant"

\* C14: a text item that is noise (shorter than 3 when trimmed, a filler
\* word, or one character repeated) sends nothing to the client and nothing
\* upstream, whatever its confidence: no repeat request for noise.
C14_NoiseSendsNothing ==
    /\ UserTextHandled
    /\ LET t == lower(Trimmed(lastUp["A"].content)) IN
            Len(t) < 3 \/ t \in FillerWords \/ OneCharRepeated(t)
    => toClient["A"] = << >> /\ toServer["A"] = << >>

\* C14 happens: a filler word, with whitespace around it, at a confidence
\* that alone would make a text low-confidence, was dropped.
C14_Witness ==
    /\ nUp["A"] = 1
    /\ UserTextHandled
    /\ lower(Trimmed(lastUp["A"].content)) = Um
    /\ Len(lastUp["A"].content) > 2
    /\ lastUp["A"].confidence = 20
    /\ toClient["A"] = << >> /\ toServer["A"] = << >>


(***************************************************************************)
(* Properties of the relay, checked under Spec.                            *)
(***************************************************************************)

IsCallFrame(frame) ==
    /\ frame.type \in {"response.output_item.added", "response.output_item.done"}
    /\ frame.has_item
    /\ frame.item_type = "function_call"

\* C1: no frame sent to the client is an output-item-added or
\* output-item-done event whose item is a function call.
C1_NoCallFrameReachesClient ==
    \A s \in Sessions : \A i \in DOMAIN toClient[s] : ~IsCallFrame(toClient[s][i])

\* C1 happens: one session has just handled the added event of a function
\* call, another has handled the done event of one and run its tool.
C1_Witness ==
    \E s, t \in Sessions :
        /\ lastUp[s].type = "response.output_item.added" /\ IsCallFrame(lastUp[s])
        /\ lastUp[t].type = "response.output_item.done" /\ IsCallFrame(lastUp[t])
        /\ phase[t] = "open" /\ s2c[t] = "run"

\* Session s handles a response.done event in this step.
HandlesResponseDone(s) ==
    /\ nUp'[s] = nUp[s] + 1
    /\ lastUp'[s].kind = "TEXT"
    /\ lastUp'[s].type = "response.done"

IsOutputOf(frame, c) ==
    /\ frame.type = "conversation.item.create"
    /\ frame.item_type = "function_call_output"
    /\ frame.call_id = c

\* C3: when the completion of a response makes session s send a continuation
\* request, the function call output of every tool call of that response is
\* already among the frames sent upstream, so it precedes the request.
C3_OutputBeforeContinuation ==
    [][\A s \in Sessions :
        (HandlesResponseDone(s) /\ Len(toServer'[s]) > Len(toServer[s])) =>
            /\ toServer'[s] = Append(toServer[s], ResponseCreate)
            /\ \A c \in CallsIn(s, "completed") :
                    \E i \in DOMAIN toServer[s] : IsOutputOf(toServer[s][i], c)]_vars

\* C3 happens: a function call output, then a frame of the client, then the
\* continuation request were sent upstream in one session.
C3_Witness ==
    \E s \in Sessions : \E i, j, k \in DOMAIN toServer[s] :
        /\ i < j /\ j < k
        /\ toServer[s][i].item_type = "function_call_output"
        /\ toServer[s][j].raw
        /\ toServer[s][k] = ResponseCreate

\* The pending calls that session s registered.
OwnPending(s) == DOMAIN _tools_pending \cap CallIds(s)

\* C4: when a session handles response.done with a pending call of its
\* own outstanding, the tracker is empty afterwards and exactly one
\* continuation request is sent upstream; with none outstanding, none is sent.
C4_ContinuationIffOwnPending ==
    [][\A s \in Sessions :
        HandlesResponseDone(s) =>
            IF OwnPending(s) # {}
            THEN /\ DOMAIN _tools_pending' = {}
                 /\ toServer'[s] = Append(toServer[s], ResponseCreate)
            ELSE toServer'[s] = toServer[s]]_vars

\* C5: a response.done handled in one session removes no pending call of
\* another session, and a session sends a continuation request only on
\* account of calls of its own.
C5_SessionsDoNotShareCalls ==
    [][\A s \in Sessions :
        HandlesResponseDone(s) =>
            /\ \A c \in DOMAIN _tools_pending \ CallIds(s) : c \in DOMAIN _tools_pending'
            /\ toServer'[s] # toServer[s] => OwnPending(s) # {}]_vars

\* Session s handles the done event of a function call item in this step.
HandlesCallDone(s) ==
    /\ nUp'[s] = nUp[s] + 1
    /\ lastUp'[s].kind = "TEXT"
    /\ lastUp'[s].type = "response.output_item.done"
    /\ lastUp'[s].has_item
    /\ lastUp'[s].item_type = "function_call"

\* The registry holds a tool of that name.
Registered(name) == \E i \in DOMAIN server.tools : server.tools[i].name = name

\* The done event handled in this step has its call in the tracker and its
\* tool in the registry.
CallIsKnown(s) ==
    /\ lastUp'[s].call_id \in DOMAIN _tools_pending
    /\ Registered(lastUp'[s].name)

\* C17: a done event whose call is not in the tracker, or whose tool is not
\* in the registry, is fatal: no tool is called, nothing is sent upstream,
\* the client gets no tool response (at most the error event), and from then
\* on the session's upstream-to-client loop handles and sends nothing.
C17_UnknownCallIsFatal ==
    [][\A s \in Sessions :
        /\ (HandlesCallDone(s) /\ ~CallIsKnown(s)) =>
                /\ toolCalls' = toolCalls
                /\ toServer' = toServer
                /\ toClient'[s] \in {toClient[s], Append(toClient[s], ErrorMsg)}
                /\ s2c'[s] = "failed"
        /\ s2c[s] = "failed" =>
                /\ s2c'[s] = "failed"
                /\ nUp'[s] = nUp[s]
                /\ toolCalls'[s] = toolCalls[s]
                /\ toClient'[s] = toClient[s]
                /\ toServer'[s] = toServer[s]]_vars

\* C17 happens, both ways: one session failed on a done event for a call
\* that was never created, the other on one that names an unknown tool.
C17_Witness ==
    \E s, t \in Sessions :
        /\ s2c[s] = "failed" /\ IsToolCallDone(lastUp[s])
        /\ lastUp[s].name = "get_auth0_logs" /\ toolCalls[s] = << >>
        /\ s2c[t] = "failed" /\ IsToolCallDone(lastUp[t])
        /\ lastUp[t].name = "no_such_tool" /\ toolCalls[t] = << >>

\* C19: a session whose upstream connection could not be made has ended
\* with exactly one frame sent to the client, the error event, no frame
\* sent upstream, and no frame taken from either peer.
C19_ConnectFailureSendsOneError ==
    \A s \in Sessions :
        (phase[s] # "connecting" /\ serverWs[s] = "none") =>
            /\ phase[s] = "ended"
            /\ clientWs[s] = "closed"
            /\ Len(toClient[s]) = 1
            /\ toClient[s][1].type = "error"
            /\ toServer[s] = << >>
            /\ nUp[s] = 0 /\ nDown[s] = 0

\* C19 happens: one session could not connect while another one is open
\* and has relayed frames.
C19_Witness ==
    \E s, t \in Sessions :
        /\ phase[s] = "ended" /\ serverWs[s] = "none"
        /\ phase[t] = "open" /\ nUp[t] > 0 /\ nDown[t] > 0

\* C20: while the handler of session s awaits a tool, a text frame of the
\* client is still transformed and sent upstream, and no frame of
\* upstream is handled.
C20_ClientLoopRunsDuringTool ==
    [][\A s \in Sessions :
        s2c[s] = "tool" =>
            /\ nUp'[s] = nUp[s]
            /\ (nDown'[s] = nDown[s] + 1 /\ lastDown'[s].kind = "TEXT") =>
                    toServer'[s] =
                        Append(toServer[s], _process_message_to_server(lastDown'[s], server))]_vars

\* C20 happens: a tool is awaited, and frames of the client (a session
\* update, rewritten, among them) went upstream since it was called.
C20_Witness ==
    \E s \in Sessions :
        /\ s2c[s] = "tool"
        /\ LET at == toolCalls[s][Len(toolCalls[s])].at IN
            /\ Len(toServer[s]) >= at + 2
            /\ \E i \in (at + 1)..Len(toServer[s]) : toServer[s][i].type = "session.update"

\* C22 as stated: once the done event of a call has been processed, the
\* tool's result sent, the call is no longer in the tracker.
C22_CallRemovedAtDone ==
    [][\A s \in Sessions :
        (s2c[s] = "tool" /\ s2c'[s] = "run") =>
            awaiting[s].message.call_id \notin DOMAIN _tools_pending']_vars

\* C22, amended: processing the done event of a call, from its receipt to
\* the sending of the tool's result, removes nothing from the tracker; a
\* call leaves the tracker only when a response.done event is handled, and
\* that event empties a tracker that holds any call.
C22_CallStaysUntilResponseDone ==
    [][/\ \A s \in Sessions :
            (HandlesCallDone(s) \/ (s2c[s] = "tool" /\ s2c'[s] # "tool")) =>
                _tools_pending' = _tools_pending
       /\ DOMAIN _tools_pending \ DOMAIN _tools_pending' # {} =>
            \E s \in Sessions : HandlesResponseDone(s) /\ DOMAIN _tools_pending' = {}
      ]_vars

\* C22 happens: the tool of a call has returned, its output has gone
\* upstream, and the call is still in the tracker.
C22_Witness ==
    \E s \in Sessions :
        /\ s2c[s] = "run"
        /\ toolCalls[s] # << >>
        /\ toolCalls[s][1].result # NoResult
        /\ toolCalls[s][1].call_id \in DOMAIN _tools_pending
        /\ \E i \in DOMAIN toServer[s] : IsOutputOf(toServer[s][i], toolCalls[s][1].call_id)


(***************************************************************************)
(* Properties of the tool-calling orchestration, checked under SpecCall.   *)
(***************************************************************************)

FramesOf(log, type) == {i \in DOMAIN log : log[i].type = type}

\* C16: a done event whose call is in the tracker and whose tool is in the
\* registry calls the tool, once, and tools are called on no other occasion;
\* when the tool returns, one function call output for that call goes
\* upstream, with the result text if the destination is ToServer and empty
\* otherwise, and the client gets one tool response (tool name, result text,
\* the item id registered with the call) if the destination is ToClient and
\* nothing otherwise.
C16_ToolCallDispatched ==
    [][LET s == "A"
           n == Len(toolCalls'[s])
       IN  /\ (HandlesCallDone(s) /\ CallIsKnown(s)) =>
                /\ n = Len(toolCalls[s]) + 1
                /\ toolCalls'[s][n].call_id = lastUp'[s].call_id
                /\ toolCalls'[s][n].name = lastUp'[s].name
                /\ toServer' = toServer /\ toClient' = toClient
           /\ n # Len(toolCalls[s]) => HandlesCallDone(s) /\ n = Len(toolCalls[s]) + 1
           /\ (s2c[s] = "tool" /\ s2c'[s] = "run") =>
                LET call == toolCalls'[s][n]
                    text == to_text(call.result)
                IN  /\ n = Len(toolCalls[s])
                    /\ toServer'[s] = Append(toServer[s],
                            [Blank EXCEPT !.raw = FALSE, !.type = "conversation.item.create",
                                !.has_item = TRUE, !.item_type = "function_call_output",
                                !.call_id = call.call_id,
                                !.result = IF call.result.destination = TO_SERVER
                                           THEN text ELSE << >>])
                    /\ toClient'[s] =
                            IF call.result.destination = TO_CLIENT
                            THEN Append(toClient[s],
                                    [Blank EXCEPT !.raw = FALSE,
                                        !.type = "extension.middle_tier_tool_response",
                                        !.previous_item_id = _tools_pending[call.call_id].previous_id,
                                        !.name = call.name, !.result = text])
                            ELSE toClient[s]
           /\ ~(s2c[s] = "tool" /\ s2c'[s] = "run") =>
                /\ FramesOf(toClient'[s], "extension.middle_tier_tool_response")
                        = FramesOf(toClient[s], "extension.middle_tier_tool_response")
                /\ {i \in DOMAIN toServer'[s] : toServer'[s][i].item_type = "function_call_output"}
                        = {i \in DOMAIN toServer[s] : toServer[s][i].item_type = "function_call_output"}
      ]_vars

\* C16 happens: a tool returned a result for the client that is no string,
\* and the client got the tool response with the item id of the created event.
C16_Witness ==
    /\ s2c["A"] = "run"
    /\ toolCalls["A"] # << >>
    /\ toolCalls["A"][1].result.destination = TO_CLIENT
    /\ toolCalls["A"][1].result.text_type = "dict"
    /\ \E i \in DOMAIN toClient["A"] :
            /\ toClient["A"][i].type = "extension.middle_tier_tool_response"
            /\ toClient["A"][i].previous_item_id = "item_0"
            /\ toClient["A"][i].result = <<"{", "sources", "}">>
    /\ \E i \in DOMAIN toServer["A"] :
            /\ toServer["A"][i].item_type = "function_call_output"
            /\ toServer["A"][i].result = << >>

\* C23: a tool is called for a call id only when upstream has created that
\* call in the session and has completed no response since, the call being
\* in the tracker; and a created event for a call id that is in the tracker
\* leaves the tracker, the stored preceding item id with it, as it was.
C23_CreatedBeforeResolved ==
    [][LET s == "A"
           n == Len(toolCalls'[s])
       IN  /\ n > Len(toolCalls[s]) =>
                /\ upstream[s][toolCalls'[s][n].call_id] = "announced"
                /\ toolCalls'[s][n].call_id \in DOMAIN _tools_pending
           /\ (/\ nUp'[s] = nUp[s] + 1
               /\ lastUp'[s].type = "conversation.item.created"
               /\ lastUp'[s].item_type = "function_call"
               /\ lastUp'[s].call_id \in DOMAIN _tools_pending) =>
                    _tools_pending' = _tools_pending
      ]_vars

\* C23 happens: a call in the tracker was created once more, with another
\* preceding item, and the tracker still holds the first one.
C23_Witness ==
    /\ lastUp["A"].type = "conversation.item.created"
    /\ lastUp["A"].item_type = "function_call"
    /\ lastUp["A"].previous_item_id = "item_9"
    /\ lastUp["A"].call_id \in DOMAIN _tools_pending
    /\ _tools_pending[lastUp["A"].call_id].previous_id = "item_0"


(***************************************************************************)
(* Properties of a session's life, checked under SpecLife.                 *)
(***************************************************************************)

\* One of the two sockets of the open session s is closed.
OneSocketClosed(s) ==
    phase[s] = "open" /\ (clientWs[s] = "closed" \/ serverWs[s] = "closed")

SessionEnded(s) ==
    phase[s] = "ended" /\ clientWs[s] = "closed" /\ serverWs[s] = "closed"

\* C18: once the client socket or the upstream socket is closed, the other
\* socket is eventually closed and the session ends, whatever the peer that
\* is still connected does or does not send.
C18_ClosingOneClosesTheOther == OneSocketClosed("A") ~> SessionEnded("A")


(***************************************************************************)
(* The diagnostic-log tool, auth0tools._auth0_logs_tool, as a function of  *)
(* its arguments, the environment and what the logs API answers.           *)
(***************************************************************************)

\* One entry of the JSON body.  Of the keys the tool reads, the entries here
\* carry the three that decide the order and the control flow.
LogEntry(event_time_utc, error_code, LoginStatus) ==
    [is_dict |-> TRUE, event_time_utc |-> event_time_utc,
     error_code |-> error_code, LoginStatus |-> LoginStatus]

\* An element of the body that is no JSON object: it has no get().
NotADict ==
    [is_dict |-> FALSE, event_time_utc |-> Absent,
     error_code |-> Absent, LoginStatus |-> Absent]

\* The order of the event_time_utc strings; the default "" comes first.
TimeRank(t) == IF t = Absent THEN 0 ELSE IF t = "2024-01-01" THEN 1 ELSE 2

\* sorted(result, key=lambda x: x.get("event_time_utc", ""), reverse=True):
\* descending and stable.
RECURSIVE sorted(_)
sorted(entries) ==
    IF entries = << >> THEN << >>
    ELSE LET rest == sorted(SubSeq(entries, 1, Len(entries) - 1))
             e == entries[Len(entries)]
             k == Cardinality({i \in DOMAIN rest :
                        TimeRank(rest[i].event_time_utc) >= TimeRank(e.event_time_utc)})
         IN  SubSeq(rest, 1, k) \o <<e>> \o SubSeq(rest, k + 1, Len(rest))

\* str(value) inside an f-string.
Str(value) == IF value \in {Absent, None} THEN "None" ELSE value

Get(value, default) == IF value = Absent THEN default ELSE value

\* The outcome of a piece of the handler: a text, or an exception.
Text(text) == [ok |-> TRUE, text |-> text]

Exc(what) == [ok |-> FALSE, text |-> <<what>>]

\* The lines of one entry (lines 61-82); error_code.lower() raises on None.
EntryLines(i, entry) ==
    LET error_code == Get(entry.error_code, "Unknown error code")
        login_status == Get(entry.LoginStatus, "Unknown status")
        head == << "ACTIVITY #", <<"1", "2", "3">>[i], ":\n",
                   "Date: ", "Unknown date", "\n",
                   "Username: ", "Unknown user", "\n",
                   "Status: ", login_status, "\n",
                   "Error Code: ", Str(error_code), "\n" >>
    IN  IF login_status = "Failed"
        THEN Text(head \o <<"ACTION NEEDED: failed login", "-----\n">>)
        ELSE IF error_code = None THEN Exc("AttributeError")
        ELSE IF error_code \in {"f", "F"}
        THEN Text(head \o <<"ACTION NEEDED: failed login", "-----\n">>)
        ELSE IF error_code \notin {"", "s", "seacft"}
        THEN Text(head \o <<"ACTION NEEDED: check code ", error_code, "-----\n">>)
        ELSE Text(head \o <<"-----\n">>)

\* The loop of lines 59-86 from entry i on: at most three entries are shown.
RECURSIVE Activity(_, _)
Activity(entries, i) ==
    IF i > Len(entries) \/ i > 3 THEN Text(<< >>)
    ELSE LET lines == EntryLines(i, entries[i]) IN
         IF ~lines.ok THEN lines
         ELSE LET more == Activity(entries, i + 1) IN
              IF ~more.ok THEN more ELSE Text(lines.text \o more.text)

\* Lines 47-98 on the parsed body of a 200 response.
Formatted(member_number, body) ==
    LET head == <<"Auth0 login logs for member ", Str(member_number), ":\n\n">> IN
    IF body.kind = "not_json" THEN Exc("ContentTypeError")
    ELSE IF body.kind = "null" \/ (body.kind = "list" /\ body.entries = << >>)
    THEN Text(head \o <<"No login records found.">>)
    ELSE IF body.kind = "number" THEN Exc("TypeError")
    ELSE IF body.kind = "dict" THEN Exc("AttributeError")
    ELSE IF \E i \in DOMAIN body.entries : ~body.entries[i].is_dict
    THEN Exc("AttributeError")
    ELSE LET sorted_entries == sorted(body.entries)
             activity == Activity(sorted_entries, 1)
             most_recent == sorted_entries[1]
         IN  IF ~activity.ok THEN activity
             ELSE Text(head \o <<"MOST RECENT ACTIVITY:\n">> \o activity.text
                    \o << "\nSUMMARY OF RECENT ACTIVITY:\n",
                          "Most recent activity shows status: ",
                          Str(Get(most_recent.LoginStatus, "")),
                          " with error code: ",
                          Str(Get(most_recent.error_code, "")), "\n",
                          "Please search the knowledge base for this specific error code to find the appropriate solution.\n" >>)

\* What the handler did: whether an exception left it, the ToolResult it
\* returned otherwise, and the number of HTTP requests it made.
Outcome(raised, text, requests) ==
    [raised |-> raised, requests |-> requests,
     result |-> ToolResult("str", text, TO_SERVER)]

\* Lines 43-105: the request and what is made of the answer.  A missing
\* endpoint makes the URL "None?code=...", on which session.post raises.
Requested(args, env, http) ==
    IF env.AUTH0_LOGS_ENDPOINT = Absent THEN Exc("InvalidURL")
    ELSE IF http.kind = "network_error" THEN Exc("ClientConnectorError")
    ELSE IF http.status = "200" THEN Formatted(args.member_number, http.body)
    ELSE IF ~http.text_ok THEN Exc("ClientPayloadError")
    ELSE Text(<<"Error retrieving login logs: ", http.status>>)

\* A plausible slip: only aiohttp's own errors are caught, so an exception
\* raised while the body is formatted leaves the handler.
Auth0ToolCatchesClientErrorOnly(args, env, http) ==
    IF env.AUTH0_LOGS_API_KEY \in {Absent, ""}
    THEN Outcome(FALSE, <<"Error: Unable to access Auth0 logs - API key not configured">>, 0)
    ELSE LET r == Requested(args, env, http) IN
         IF r.ok THEN Outcome(FALSE, r.text, 1)
         ELSE IF r.text \in {<<"AttributeError">>, <<"TypeError">>}
         THEN Outcome(TRUE, << >>, 1)
         ELSE Outcome(FALSE, <<"Failed to retrieve login logs: ">> \o r.text, 1)

_auth0_logs_tool(args, env, http) ==
    IF env.AUTH0_LOGS_API_KEY \in {Absent, ""}
    THEN Outcome(FALSE, <<"Error: Unable to access Auth0 logs - API key not configured">>, 0)
    ELSE LET r == Requested(args, env, http) IN
         IF r.ok THEN Outcome(FALSE, r.text, 1)
         ELSE Outcome(FALSE, <<"Failed to retrieve login logs: ">> \o r.text, 1)

\* Entries in one body.
MaxEntries == 4

LogEntries ==
    { LogEntry("2024-06-01", "F", Absent),
      LogEntry("2024-01-01", "e1", "Success"),
      LogEntry(Absent, None, "Failed"),
      LogEntry("2024-06-01", None, Absent),
      LogEntry("2024-01-01", "s", Absent),
      NotADict }

Body(kind, entries) == [kind |-> kind, entries |-> entries]

Bodies ==
    {Body(k, << >>) : k \in {"not_json", "null", "number", "dict"}}
    \cup {Body("list", es) : es \in UNION {[1..n -> LogEntries] : n \in 0..MaxEntries}}

Answer(kind, status, body, text_ok) ==
    [kind |-> kind, status |-> status, body |-> body, text_ok |-> text_ok]

\* What the logs API does with the request.
Answers ==
    {Answer("network_error", "", Body("null", << >>), TRUE)}
    \cup {Answer("response", "200", b, TRUE) : b \in Bodies}
    \cup {Answer("response", st, Body("null", << >>), ok) : st \in {"404", "500"}, ok \in BOOLEAN}

Auth0Args == {[member_number |-> m] : m \in {Absent, "12345"}}

Auth0Envs ==
    {[AUTH0_LOGS_ENDPOINT |-> e, AUTH0_LOGS_API_KEY |-> k] :
        e \in {Absent, "https://logs.example"}, k \in {Absent, "", "secret"}}

InitAuth0 ==
    /\ RelayInit({AppServer})
    /\ gate = NoGate
    /\ ssml = NoSsml
    /\ auth0 \in {[called |-> FALSE, args |-> a, env |-> e, http |-> h,
                   outcome |-> Outcome(FALSE, << >>, 0)] :
                    a \in Auth0Args, e \in Auth0Envs, h \in Answers}

\* tool.target(args) with the get_auth0_logs tool.
CallAuth0 ==
    /\ ~auth0.called
    /\ auth0' = [auth0 EXCEPT !.called = TRUE,
                    !.outcome = _auth0_logs_tool(auth0.args, auth0.env, auth0.http)]
    /\ UNCHANGED << relayVars, gate, ssml >>

NextAuth0 == CallAuth0

SpecAuth0 == InitAuth0 /\ [][NextAuth0]_vars

KeyConfigured == auth0.env.AUTH0_LOGS_API_KEY \notin {Absent, ""}

ErrorTexts ==
    { "Error: Unable to access Auth0 logs - API key not configured",
      "Error retrieving login logs: ", "Failed to retrieve login logs: " }

\* C21: whatever the environment and the logs API do, no exception leaves
\* the tool and its result goes to the server; without an API key no
\* request is made; without a key, on a network error, on a response other
\* than 200, and on a body that cannot be parsed or formatted, the result
\* text is one of the tool's error texts.
C21_Auth0ToolNeverRaises ==
    auth0.called =>
        /\ ~auth0.outcome.raised
        /\ auth0.outcome.result.destination = TO_SERVER
        /\ ~KeyConfigured => auth0.outcome.requests = 0
        /\ \/ ~KeyConfigured
           \/ auth0.http.kind = "network_error"
           \/ auth0.http.status # "200"
           \/ auth0.http.body.kind \in {"not_json", "number", "dict"}
           \/ \E i \in DOMAIN auth0.http.body.entries : auth0.http.body.entries[i] = NotADict
           => auth0.outcome.result.text[1] \in ErrorTexts

\* C21 happens: with a key and a 200 response of four entries, one of the
\* three shown has a null error code, and its formatting raised inside the tool.
C21_Witness ==
    /\ auth0.called
    /\ KeyConfigured
    /\ auth0.env.AUTH0_LOGS_ENDPOINT # Absent
    /\ auth0.http.status = "200"
    /\ auth0.http.body.kind = "list"
    /\ Len(auth0.http.body.entries) = 4
    /\ \A i \in DOMAIN auth0.http.body.entries : auth0.http.body.entries[i].is_dict
    /\ auth0.http.body.entries[1] = LogEntry("2024-06-01", None, Absent)
    /\ auth0.outcome.result.text = <<"Failed to retrieve login logs: ", "AttributeError">>
    /\ auth0.outcome.requests = 1

=============================================================================
